---- MODULE Spec2Model ----
(***************************************************************************)
(* Model of src/main.rs: the concrete Logger, the AbxLogger trait with its *)
(* #[wrap(Logger)] implementation, run, main, and the FakeLogger of the    *)
(* unit test with its RefCell<Vec<String>>.                                *)
(*                                                                         *)
(* Two programs are modelled side by side, each single threaded with its   *)
(* own call stack and its own standard output: "main" is the binary        *)
(* (fn main), "test" is a harness that, like tests::it_prints_two_logs,    *)
(* constructs loggers and calls run, the trait methods and get_logs on     *)
(* them, in any order and with any displayable argument.                   *)
(***************************************************************************)
EXTENDS Integers, Sequences, FiniteSets

\* Bound on the number of top-level calls the harness makes.
MaxCalls == 3

EventDescription == "Some event description"
ErrorDescription == "Some error description"

Procs == {"main", "test"}
Recorders == {"fake1", "fake2"}
Loggers == {"Logger"} \cup Recorders

----------------------------------------------------------------------------
(* Displayable values: T: Display is a &str or an integer.                 *)

StrVal(s) == [kind |-> "str", s |-> s, n |-> 0]
IntVal(n) == [kind |-> "int", s |-> "", n |-> n]
NoArg == StrVal("")

\* The arguments the harness passes to the trait methods.
Descriptions == {StrVal("42"), IntVal(-12)}

Digit == <<"0", "1", "2", "3", "4", "5", "6", "7", "8", "9">>

RECURSIVE NatToString(_)
NatToString(n) ==
    IF n < 10 THEN Digit[n + 1]
    ELSE NatToString(n \div 10) \o Digit[(n % 10) + 1]

\* description.to_string(), and the {description} of println!
ToString(d) ==
    IF d.kind = "str" THEN d.s
    ELSE IF d.n < 0 THEN "-" \o NatToString(-d.n)
    ELSE NatToString(d.n)

\* Mutant: the two prefixes exchanged.
FormatLineSwapped(method, d) ==
    IF method = "log_event" THEN "Error: " \o ToString(d)
    ELSE "Event: " \o ToString(d)

\* println!("Event: {description}") and println!("Error: {description}")
FormatLine(method, d) ==
    IF method = "log_event" THEN "Event: " \o ToString(d)
    ELSE "Error: " \o ToString(d)

\* Mutants: insert(0, s); push twice; overwrite the vector.
PushFront(vec, s) == <<s>> \o vec
PushTwice(vec, s) == Append(Append(vec, s), s)
PushOverwrite(vec, s) == <<s>>

\* Vec::push
Push(vec, s) == Append(vec, s)

\* Mutant: .iter().rev()
CloneReversed(vec) == [i \in 1..Len(vec) |-> vec[Len(vec) + 1 - i]]

\* .iter().map(|s| s.clone()).collect()
CloneAll(vec) == [i \in 1..Len(vec) |-> vec[i]]

----------------------------------------------------------------------------
(* RefCell borrow flag: 0 unused, -1 mutably borrowed, n > 0 shared.       *)

CanBorrowMut(flag) == flag = 0
CanBorrow(flag) == flag >= 0
AcquireMut(flag) == flag - 1
\* Mutant: the RefMut is leaked, the flag never goes back.
LeakMut(flag) == flag
ReleaseMut(flag) == flag + 1
AcquireShared(flag) == flag + 1
ReleaseShared(flag) == flag - 1

----------------------------------------------------------------------------
(* #[wrap(Logger)]: abx_<method> of the trait is <method> of Logger.       *)

\* Mutant: the two methods wired crosswise.
WrapTargetSwapped(fn) == IF fn = "abx_log_event" THEN "log_error" ELSE "log_event"

WrapTarget(fn) == SubSeq(fn, 5, Len(fn))

\* Mutants: the two statements in the other order; the first one twice.
RunCallSwapped(pc) ==
    IF pc = "51" THEN [fn |-> "abx_log_error", arg |-> StrVal(ErrorDescription)]
    ELSE [fn |-> "abx_log_event", arg |-> StrVal(EventDescription)]

RunCallEventTwice(pc) ==
    [fn |-> "abx_log_event", arg |-> StrVal(EventDescription)]

(* run: the trait method called at each line, and its argument.            *)
RunCall(pc) ==
    IF pc = "51" THEN [fn |-> "abx_log_event", arg |-> StrVal(EventDescription)]
    ELSE [fn |-> "abx_log_error", arg |-> StrVal(ErrorDescription)]

----------------------------------------------------------------------------
VARIABLES
    stack,      \* stack[p]: the call stack of program p, innermost frame last
    stdout,     \* stdout[p]: the lines program p printed
    built,      \* built[p]: how many times program p called Logger::new
    live,       \* the FakeLoggers the harness has constructed
    logs,       \* logs[r]: the Vec<String> inside FakeLogger r's RefCell
    borrow,     \* borrow[r]: the borrow flag of FakeLogger r's RefCell
    panicked,   \* panicked[p]: program p panicked
    got,        \* the Vec<String> last returned by get_logs, and by whom
    calls,      \* top-level calls the harness has made
    history,    \* the harness's completed top-level calls, in order
    trace       \* trace[p]: what the current or last run of p did on its logger

vars == <<stack, stdout, built, live, logs, borrow, panicked, got, calls,
          history, trace>>

Frame(fn, pc, logger, arg) ==
    [fn |-> fn, pc |-> pc, logger |-> logger, arg |-> arg]

Top(p) == stack[p][Len(stack[p])]
Below(p) == SubSeq(stack[p], 1, Len(stack[p]) - 1)
Running(p) == ~panicked[p] /\ stack[p] # <<>>
At(p, fn, pc) == Running(p) /\ Top(p).fn = fn /\ Top(p).pc = pc
MainDone == ~panicked["main"] /\ stack["main"] = <<>>

\* The harness is between two calls.  The binary and the harness are separate
\* runs that share nothing: the harness is run once the binary has ended.
Idle == MainDone /\ ~panicked["test"] /\ stack["test"] = <<>>

WithPc(p, pc) == [stack[p] EXCEPT ![Len(stack[p])].pc = pc]

AbxMethods == {"abx_log_event", "abx_log_error"}
LoggerMethods == {"log_event", "log_error"}

\* Mutant: one vector shared by every FakeLogger (a static).
SharedCell(self) == "fake1"

\* Which RefCell a FakeLogger's methods use: self.logs, its own.
Cell(self) == self

\* Where a call starts executing: the first statement of the function that
\* the static dispatch on the logger's type selects.
EntryPc(fn, logger) ==
    IF fn = "run" THEN "51"
    ELSE IF fn \in LoggerMethods THEN "println"
    ELSE IF fn = "get_logs" THEN "borrow"
    ELSE IF logger = "Logger" THEN "delegate"
    ELSE "borrow_mut"

EntryFrame(fn, logger, arg) == Frame(fn, EntryPc(fn, logger), logger, arg)

Event(ev, fn, arg) == [ev |-> ev, fn |-> fn, arg |-> arg]

InRun(frames) == frames # <<>> /\ frames[Len(frames)].fn = "run"

\* A call from the innermost frame of p, which resumes at retpc.
CallFrom(p, retpc, f) ==
    stack' = [stack EXCEPT ![p] = Append(WithPc(p, retpc), f)]

\* The innermost frame of p returns to its caller.
Return(p) ==
    LET f == Top(p)
        rest == Below(p)
    IN  /\ stack' = [stack EXCEPT ![p] = rest]
        /\ history' = IF p = "test" /\ rest = <<>>
                      THEN Append(history,
                                  [fn |-> f.fn, logger |-> f.logger, arg |-> f.arg])
                      ELSE history
        /\ trace' = IF f.fn = "run" \/ InRun(rest)
                    THEN [trace EXCEPT ![p] = Append(@, Event("ret", f.fn, f.arg))]
                    ELSE trace

Panic(p) == panicked' = [panicked EXCEPT ![p] = TRUE]

----------------------------------------------------------------------------
Init ==
    /\ stack = [p \in Procs |->
                  IF p = "main" THEN <<Frame("main", "new", "Logger", NoArg)>>
                  ELSE <<>>]
    /\ stdout = [p \in Procs |-> <<>>]
    /\ built = [p \in Procs |-> 0]
    /\ live = {}
    /\ logs = [r \in Recorders |-> <<>>]
    /\ borrow = [r \in Recorders |-> 0]
    /\ panicked = [p \in Procs |-> FALSE]
    /\ got = [from |-> "none", copy |-> <<>>]
    /\ calls = 0
    /\ history = <<>>
    /\ trace = [p \in Procs |-> <<>>]

----------------------------------------------------------------------------
(* fn main                                                                 *)

\* Logger::new("prod credentials".to_string())
MainNew ==
    /\ At("main", "main", "new")
    /\ built' = [built EXCEPT !["main"] = @ + 1]
    /\ stack' = [stack EXCEPT !["main"] = WithPc("main", "run")]
    /\ UNCHANGED <<stdout, live, logs, borrow, panicked, got, calls, history, trace>>

\* run(&logger)
MainCallRun ==
    /\ At("main", "main", "run")
    /\ CallFrom("main", "ret", EntryFrame("run", "Logger", NoArg))
    /\ trace' = [trace EXCEPT !["main"] = <<Event("call", "run", NoArg)>>]
    /\ UNCHANGED <<stdout, built, live, logs, borrow, panicked, got, calls, history>>

MainReturn ==
    /\ At("main", "main", "ret")
    /\ stack' = [stack EXCEPT !["main"] = <<>>]
    /\ UNCHANGED <<stdout, built, live, logs, borrow, panicked, got, calls, history, trace>>

----------------------------------------------------------------------------
(* The harness: what a test may do between calls.                          *)

Available(l) == IF l = "Logger" THEN built["test"] > 0 ELSE l \in live

NewLogger ==
    /\ Idle
    /\ built["test"] = 0
    /\ built' = [built EXCEPT !["test"] = 1]
    /\ UNCHANGED <<stack, stdout, live, logs, borrow, panicked, got, calls, history, trace>>

\* FakeLogger { logs: RefCell::new(Vec::new()) }
NewFakeLogger(r) ==
    /\ Idle
    /\ r \notin live
    /\ r = "fake1" \/ "fake1" \in live
    /\ live' = live \cup {r}
    /\ logs' = [logs EXCEPT ![r] = <<>>]
    /\ borrow' = [borrow EXCEPT ![r] = 0]
    /\ UNCHANGED <<stack, stdout, built, panicked, got, calls, history, trace>>

HarnessCall(fn, l, d) ==
    /\ Idle
    /\ calls < MaxCalls
    /\ Available(l)
    /\ calls' = calls + 1
    /\ stack' = [stack EXCEPT !["test"] = <<EntryFrame(fn, l, d)>>]

CallRun(l) ==
    /\ HarnessCall("run", l, NoArg)
    /\ trace' = [trace EXCEPT !["test"] = <<Event("call", "run", NoArg)>>]
    /\ UNCHANGED <<stdout, built, live, logs, borrow, panicked, got, history>>

CallLogEvent(l, d) ==
    /\ HarnessCall("abx_log_event", l, d)
    /\ UNCHANGED <<stdout, built, live, logs, borrow, panicked, got, history, trace>>

CallLogError(l, d) ==
    /\ HarnessCall("abx_log_error", l, d)
    /\ UNCHANGED <<stdout, built, live, logs, borrow, panicked, got, history, trace>>

CallGetLogs(r) ==
    /\ HarnessCall("get_logs", r, NoArg)
    /\ UNCHANGED <<stdout, built, live, logs, borrow, panicked, got, history, trace>>

----------------------------------------------------------------------------
(* fn run<L: AbxLogger>(logger: &L)                                        *)

RunCallAt(p, pc, retpc) ==
    /\ At(p, "run", pc)
    /\ LET c == RunCall(pc)
       IN  /\ CallFrom(p, retpc, EntryFrame(c.fn, Top(p).logger, c.arg))
           /\ trace' = [trace EXCEPT ![p] = Append(@, Event("call", c.fn, c.arg))]
    /\ UNCHANGED <<stdout, built, live, logs, borrow, panicked, got, calls, history>>

\* logger.abx_log_event("Some event description");
RunLogEvent(p) == RunCallAt(p, "51", "52")

\* logger.abx_log_error("Some error description");
RunLogError(p) == RunCallAt(p, "52", "53")

RunReturn(p) ==
    /\ At(p, "run", "53")
    /\ Return(p)
    /\ UNCHANGED <<stdout, built, live, logs, borrow, panicked, got, calls>>

----------------------------------------------------------------------------
(* impl AbxLogger for Logger, generated by #[wrap(Logger)]                 *)

WrapDelegate(p) ==
    /\ Running(p)
    /\ Top(p).fn \in AbxMethods
    /\ Top(p).pc = "delegate"
    /\ CallFrom(p, "ret", EntryFrame(WrapTarget(Top(p).fn), Top(p).logger, Top(p).arg))
    /\ UNCHANGED <<stdout, built, live, logs, borrow, panicked, got, calls, history, trace>>

WrapReturn(p) ==
    /\ Running(p)
    /\ Top(p).fn \in AbxMethods
    /\ Top(p).pc = "ret"
    /\ Return(p)
    /\ UNCHANGED <<stdout, built, live, logs, borrow, panicked, got, calls>>

(* Logger::log_event and Logger::log_error                                 *)
LoggerPrintln(p) ==
    /\ Running(p)
    /\ Top(p).fn \in LoggerMethods
    /\ Top(p).pc = "println"
    /\ stdout' = [stdout EXCEPT ![p] = Append(@, FormatLine(Top(p).fn, Top(p).arg))]
    /\ Return(p)
    /\ UNCHANGED <<built, live, logs, borrow, panicked, got, calls>>

----------------------------------------------------------------------------
(* impl AbxLogger for FakeLogger:                                          *)
(*   self.logs.borrow_mut().push(description.to_string());                 *)

FakeBorrowMut(p) ==
    /\ Running(p)
    /\ Top(p).fn \in AbxMethods
    /\ Top(p).pc = "borrow_mut"
    /\ LET c == Cell(Top(p).logger)
       IN  IF CanBorrowMut(borrow[c])
           THEN /\ borrow' = [borrow EXCEPT ![c] = AcquireMut(@)]
                /\ stack' = [stack EXCEPT ![p] = WithPc(p, "push")]
                /\ UNCHANGED panicked
           ELSE /\ Panic(p)
                /\ UNCHANGED <<borrow, stack>>
    /\ UNCHANGED <<stdout, built, live, logs, got, calls, history, trace>>

FakePush(p) ==
    /\ Running(p)
    /\ Top(p).fn \in AbxMethods
    /\ Top(p).pc = "push"
    /\ logs' = [logs EXCEPT ![Cell(Top(p).logger)] = Push(@, ToString(Top(p).arg))]
    /\ stack' = [stack EXCEPT ![p] = WithPc(p, "drop")]
    /\ UNCHANGED <<stdout, built, live, borrow, panicked, got, calls, history, trace>>

\* the RefMut temporary is dropped at the end of the statement
FakeDrop(p) ==
    /\ Running(p)
    /\ Top(p).fn \in AbxMethods
    /\ Top(p).pc = "drop"
    /\ borrow' = [borrow EXCEPT ![Cell(Top(p).logger)] = ReleaseMut(@)]
    /\ Return(p)
    /\ UNCHANGED <<stdout, built, live, logs, panicked, got, calls>>

----------------------------------------------------------------------------
(* FakeLogger::get_logs:                                                   *)
(*   self.logs.borrow().iter().map(|s| s.clone()).collect()                *)

GetBorrow(p) ==
    /\ At(p, "get_logs", "borrow")
    /\ LET c == Cell(Top(p).logger)
       IN  IF CanBorrow(borrow[c])
           THEN /\ borrow' = [borrow EXCEPT ![c] = AcquireShared(@)]
                /\ stack' = [stack EXCEPT ![p] = WithPc(p, "collect")]
                /\ UNCHANGED panicked
           ELSE /\ Panic(p)
                /\ UNCHANGED <<borrow, stack>>
    /\ UNCHANGED <<stdout, built, live, logs, got, calls, history, trace>>

GetCollect(p) ==
    /\ At(p, "get_logs", "collect")
    /\ got' = [from |-> Top(p).logger, copy |-> CloneAll(logs[Cell(Top(p).logger)])]
    /\ stack' = [stack EXCEPT ![p] = WithPc(p, "drop")]
    /\ UNCHANGED <<stdout, built, live, logs, borrow, panicked, calls, history, trace>>

GetDrop(p) ==
    /\ At(p, "get_logs", "drop")
    /\ borrow' = [borrow EXCEPT ![Cell(Top(p).logger)] = ReleaseShared(@)]
    /\ Return(p)
    /\ UNCHANGED <<stdout, built, live, logs, panicked, got, calls>>

----------------------------------------------------------------------------
Step(p) ==
    \/ RunLogEvent(p)
    \/ RunLogError(p)
    \/ RunReturn(p)
    \/ WrapDelegate(p)
    \/ WrapReturn(p)
    \/ LoggerPrintln(p)
    \/ FakeBorrowMut(p)
    \/ FakePush(p)
    \/ FakeDrop(p)
    \/ GetBorrow(p)
    \/ GetCollect(p)
    \/ GetDrop(p)

MainNext == MainNew \/ MainCallRun \/ MainReturn \/ Step("main")

Next ==
    \/ MainNew
    \/ MainCallRun
    \/ MainReturn
    \/ NewLogger
    \/ \E r \in Recorders : NewFakeLogger(r)
    \/ \E l \in Loggers : CallRun(l)
    \/ \E l \in Loggers, d \in Descriptions : CallLogEvent(l, d)
    \/ \E l \in Loggers, d \in Descriptions : CallLogError(l, d)
    \/ \E r \in Recorders : CallGetLogs(r)
    \/ \E p \in Procs : Step(p)

Spec == Init /\ [][Next]_vars

\* Each program is one thread that runs until it returns.
FairSpec == Spec /\ WF_vars(MainNext)

----------------------------------------------------------------------------
(* What the claims are stated with.                                        *)

IsPrefix(a, b) == Len(a) <= Len(b) /\ SubSeq(b, 1, Len(a)) = a

RunOp(l) == [fn |-> "run", logger |-> l, arg |-> NoArg]
GetOp(r) == [fn |-> "get_logs", logger |-> r, arg |-> NoArg]

\* The harness's completed calls on logger l, in order.
OnLogger(l) == SelectSeq(history, LAMBDA e : e.logger = l)

\* The harness has a call in flight whose outermost frame is on logger l.
InFlightOn(l) ==
    /\ MainDone
    /\ ~panicked["test"]
    /\ stack["test"] # <<>>
    /\ stack["test"][1].logger = l

\* What one run makes of its logger, start to end.
FullTrace ==
    << Event("call", "run", NoArg),
       Event("call", "abx_log_event", StrVal("Some event description")),
       Event("ret", "abx_log_event", StrVal("Some event description")),
       Event("call", "abx_log_error", StrVal("Some error description")),
       Event("ret", "abx_log_error", StrVal("Some error description")),
       Event("ret", "run", NoArg) >>

----------------------------------------------------------------------------
\* C1: one call of run on a freshly constructed FakeLogger, and nothing else
\* on it, leaves its sequence equal to ["Some event description",
\* "Some error description"]: length 2, that order, that text.
C1_FreshRunRecordsPair ==
    \A r \in Recorders :
        (Idle /\ OnLogger(r) = <<RunOp(r)>>) =>
            /\ Len(logs[r]) = 2
            /\ logs[r][1] = "Some event description"
            /\ logs[r][2] = "Some error description"

C1_Witness ==
    /\ Idle
    /\ history = <<RunOp("fake1")>>
    /\ Len(logs["fake1"]) = 2

----------------------------------------------------------------------------
\* C2: whatever the logger, one run makes exactly two calls on it:
\* abx_log_event once, which returns, then abx_log_error once, which returns,
\* then run returns; at every moment what run has done so far is a prefix of
\* that, and once run has returned it is all of that.
C2_RunCallsEventThenError ==
    \A p \in Procs :
        /\ IsPrefix(trace[p], FullTrace)
        /\ (\A i \in 1..Len(stack[p]) : stack[p][i].fn # "run")
              => trace[p] \in {<<>>, FullTrace}

C2_Witness ==
    /\ Idle
    /\ Len(history) = 2
    /\ history[1] = RunOp("Logger")
    /\ history[2] = RunOp("fake1")
    /\ trace["test"] = FullTrace
    /\ trace["main"] = FullTrace

----------------------------------------------------------------------------
\* What the completed calls on a recorder should have left in it, and what
\* the completed calls on the real Logger should have printed.
LinesOf(e, eventOf, errorOf) ==
    IF e.fn = "run" THEN <<eventOf[StrVal(EventDescription)],
                           errorOf[StrVal(ErrorDescription)]>>
    ELSE IF e.fn = "abx_log_event" THEN <<eventOf[e.arg]>>
    ELSE IF e.fn = "abx_log_error" THEN <<errorOf[e.arg]>>
    ELSE <<>>

Args == Descriptions \cup {StrVal(EventDescription), StrVal(ErrorDescription)}

RECURSIVE Expected(_, _, _)
Expected(h, eventOf, errorOf) ==
    IF h = <<>> THEN <<>>
    ELSE Expected(SubSeq(h, 1, Len(h) - 1), eventOf, errorOf)
             \o LinesOf(h[Len(h)], eventOf, errorOf)

Stringified == [d \in Args |-> ToString(d)]

ExpectedLogs(h) == Expected(h, Stringified, Stringified)

\* One step appends at most one entry to a sequence, at its end, and only a
\* step of a logging method on that logger does, with its argument's string.
AppendsOne(before, after, p, l, methods) ==
    \/ after = before
    \/ /\ Running(p)
       /\ Top(p).fn \in methods
       /\ Top(p).logger = l
       /\ Len(after) = Len(before) + 1
       /\ SubSeq(after, 1, Len(before)) = before

\* C3: every logging call appends exactly one entry to the end of the
\* sequence behind its logger (the FakeLogger's vector, the Logger's output),
\* for the FakeLogger the string form of its argument; no step changes or
\* removes an earlier entry; and between calls each FakeLogger's sequence
\* lists the arguments of the calls made on it, in the order they were made.
C3_EachCallAppendsOne ==
    /\ [][ /\ \A r \in Recorders :
                /\ AppendsOne(logs[r], logs'[r], "test", r, AbxMethods)
                /\ logs'[r] # logs[r] =>
                       logs'[r][Len(logs'[r])] = ToString(Top("test").arg)
           /\ \A p \in Procs :
                AppendsOne(stdout[p], stdout'[p], p, "Logger", LoggerMethods)
         ]_vars
    /\ [](Idle => /\ \A r \in Recorders : logs[r] = ExpectedLogs(OnLogger(r))
                  /\ Len(stdout["test"]) = Len(ExpectedLogs(OnLogger("Logger"))))

C3_Witness ==
    /\ Idle
    /\ Len(history) = 3
    /\ logs["fake1"] = <<"42", "-12", "42">>

----------------------------------------------------------------------------
\* C4: run on a fresh FakeLogger, then run on another fresh FakeLogger: both
\* sequences end as ["Some event description", "Some error description"],
\* and while the second run is going the first sequence stays as it was and
\* the second holds only what the second run has recorded so far.
C4_TwoRecordersIndependent ==
    \A r1, r2 \in Recorders :
        r1 # r2 =>
            /\ (history = <<RunOp(r1)>> /\ InFlightOn(r2) /\ stack["test"][1].fn = "run")
                  => /\ logs[r1] = <<EventDescription, ErrorDescription>>
                     /\ IsPrefix(logs[r2], <<EventDescription, ErrorDescription>>)
            /\ (Idle /\ history = <<RunOp(r1), RunOp(r2)>>)
                  => /\ logs[r1] = <<EventDescription, ErrorDescription>>
                     /\ logs[r2] = <<EventDescription, ErrorDescription>>

C4_Witness ==
    /\ Idle
    /\ history = <<RunOp("fake1"), RunOp("fake2")>>
    /\ logs["fake2"] = <<EventDescription, ErrorDescription>>

----------------------------------------------------------------------------
\* An output line without its 7-character prefix, and the method the prefix
\* stands for.
StripPrefix(line) == SubSeq(line, 8, Len(line))

PrefixKind(line) ==
    IF Len(line) >= 7 /\ SubSeq(line, 1, 7) = "Event: " THEN "abx_log_event"
    ELSE IF Len(line) >= 7 /\ SubSeq(line, 1, 7) = "Error: " THEN "abx_log_error"
    ELSE "none"

\* The calls a run made on its logger.
CallsOf(tr) == SelectSeq(tr, LAMBDA e : e.ev = "call" /\ e.fn \in AbxMethods)

\* C5: run on the real Logger (the binary) and run on a fresh FakeLogger make
\* the same two calls, in the same order, with the same descriptions: the
\* binary's output lines with their "Event: " / "Error: " prefixes removed
\* are the FakeLogger's entries, one for one, and each line's prefix is the
\* kind of the call in that position.
C5_RealAndFakeAgree ==
    \A r \in Recorders :
        (Idle /\ history # <<>> /\ history[Len(history)] = RunOp(r)
              /\ OnLogger(r) = <<RunOp(r)>>) =>
            LET real == stdout["main"]
                fake == logs[r]
                made == CallsOf(trace["test"])
            IN  /\ Len(real) = 2
                /\ Len(fake) = 2
                /\ Len(made) = 2
                /\ CallsOf(trace["main"]) = made
                /\ \A i \in 1..2 :
                      /\ StripPrefix(real[i]) = fake[i]
                      /\ PrefixKind(real[i]) = made[i].fn

C5_Witness ==
    /\ Idle
    /\ history = <<RunOp("fake1")>>
    /\ stdout["main"] = <<"Event: Some event description",
                          "Error: Some error description">>
    /\ logs["fake1"] = <<"Some event description", "Some error description">>

----------------------------------------------------------------------------
EventLine == [d \in Args |-> "Event: " \o ToString(d)]
ErrorLine == [d \in Args |-> "Error: " \o ToString(d)]

ExpectedLines(h) == Expected(h, EventLine, ErrorLine)

\* C6: the trait implementation on Logger delegates one to one:
\* abx_log_event(d) makes exactly one call of Logger::log_event(d) and
\* abx_log_error(d) exactly one call of Logger::log_error(d), so the output
\* of a call is the single line "Event: d" or "Error: d", d unaltered and
\* the kinds not exchanged.
C6_WrapDelegatesOneToOne ==
    /\ Idle => stdout["test"] = ExpectedLines(OnLogger("Logger"))
    /\ \A p \in Procs : \A i \in 1..Len(stack[p]) :
          stack[p][i].fn \in LoggerMethods =>
              /\ i > 1
              /\ stack[p][i - 1].fn = "abx_" \o stack[p][i].fn
              /\ stack[p][i - 1].logger = "Logger"
              /\ stack[p][i - 1].pc = "ret"
              /\ stack[p][i - 1].arg = stack[p][i].arg
    /\ (InFlightOn("Logger") /\ stack["test"][1].fn \in AbxMethods) =>
          LET f == stack["test"][1]
              line == IF f.fn = "abx_log_event" THEN "Event: " \o ToString(f.arg)
                      ELSE "Error: " \o ToString(f.arg)
              returned == Len(stack["test"]) = 1 /\ f.pc = "ret"
          IN  stdout["test"] = ExpectedLines(OnLogger("Logger"))
                                   \o (IF returned THEN <<line>> ELSE <<>>)

C6_Witness ==
    /\ Idle
    /\ history = << [fn |-> "abx_log_error", logger |-> "Logger", arg |-> IntVal(-12)],
                    [fn |-> "abx_log_event", logger |-> "Logger", arg |-> StrVal("42")] >>
    /\ stdout["test"] = <<"Error: -12", "Event: 42">>

----------------------------------------------------------------------------
TwoLines == <<"Event: Some event description", "Error: Some error description">>

\* C7: the binary constructs the Logger once, calls run once and always ends
\* normally, having printed exactly "Event: Some event description" then
\* "Error: Some error description": at every moment its output is a prefix
\* of these two lines, it never panics, it ends with both printed, and once
\* ended it prints nothing more.
C7_MainTerminatesAfterTwoLines ==
    /\ <>MainDone
    /\ [](/\ ~panicked["main"]
          /\ built["main"] <= 1
          /\ IsPrefix(stdout["main"], TwoLines)
          /\ MainDone => /\ built["main"] = 1
                         /\ stdout["main"] = TwoLines
                         /\ trace["main"] = FullTrace)
    /\ [][MainDone => (MainDone' /\ stdout'["main"] = stdout["main"])]_vars

C7_Witness ==
    /\ MainDone
    /\ built["main"] = 1
    /\ stdout["main"] = TwoLines
    /\ calls = 0

----------------------------------------------------------------------------
InGetLogs == Running("test") /\ stack["test"][1].fn = "get_logs"

\* C8: get_logs returns a copy of the FakeLogger's sequence, same length,
\* same entries, same order; it is a pure read, no step of it changes any
\* FakeLogger's sequence; and the copy it returned changes only when
\* get_logs is called again, not when a later logging call is made.
C8_GetLogsCopies ==
    /\ [](\A r \in Recorders :
            (\/ At("test", "get_logs", "drop") /\ Top("test").logger = r
             \/ Idle /\ history # <<>> /\ history[Len(history)] = GetOp(r)) =>
                /\ got.from = r
                /\ Len(got.copy) = Len(logs[r])
                /\ \A i \in 1..Len(logs[r]) : got.copy[i] = logs[r][i])
    /\ [][ /\ InGetLogs => logs' = logs
           /\ got' # got => At("test", "get_logs", "collect") ]_vars

C8_Witness ==
    /\ Idle
    /\ history = << RunOp("fake1"), GetOp("fake1"),
                    [fn |-> "abx_log_event", logger |-> "fake1", arg |-> IntVal(-12)] >>
    /\ got.copy = <<EventDescription, ErrorDescription>>
    /\ logs["fake1"] = <<EventDescription, ErrorDescription, "-12">>

----------------------------------------------------------------------------
RECURSIVE TrailingRuns(_)
TrailingRuns(h) ==
    IF h = <<>> \/ h[Len(h)].fn # "run" THEN 0
    ELSE 1 + TrailingRuns(SubSeq(h, 1, Len(h) - 1))

RECURSIVE Pairs(_)
Pairs(n) ==
    IF n = 0 THEN <<>>
    ELSE Pairs(n - 1) \o <<"Some event description", "Some error description">>

\* C9: run called n times in a row on the same FakeLogger, whose sequence
\* was s before the first of them, leaves s followed by n times the pair
\* ("Some event description", "Some error description"): length |s| + 2n,
\* the entries of s where they were.
C9_RunAppendsToAnySequence ==
    \A r \in Recorders :
        Idle =>
            LET h == SelectSeq(history,
                               LAMBDA e : e.logger = r /\ e.fn # "get_logs")
                n == TrailingRuns(h)
                s == ExpectedLogs(SubSeq(h, 1, Len(h) - n))
            IN  /\ logs[r] = s \o Pairs(n)
                /\ Len(logs[r]) = Len(s) + 2 * n

C9_Witness ==
    /\ Idle
    /\ history = << [fn |-> "abx_log_error", logger |-> "fake1", arg |-> StrVal("42")],
                    RunOp("fake1"), RunOp("fake1") >>
    /\ Len(logs["fake1"]) = 5

----------------------------------------------------------------------------
\* The borrow a call in progress holds on FakeLogger r's RefCell.
Held(r) ==
    IF ~Running("test") \/ Top("test").logger # r THEN 0
    ELSE IF Top("test").fn \in AbxMethods /\ Top("test").pc \in {"push", "drop"} THEN -1
    ELSE IF Top("test").fn = "get_logs" /\ Top("test").pc \in {"collect", "drop"} THEN 1
    ELSE 0

\* C10: logging through a FakeLogger never fails: nothing panics; the
\* RefCell is borrowed exactly by the call in progress on it (mutably by a
\* logging call, shared by get_logs), so it is free when a call begins,
\* free again when it has returned, and never borrowed twice.
C10_NoBorrowConflict ==
    /\ \A p \in Procs : ~panicked[p]
    /\ \A r \in Recorders :
          /\ borrow[r] \in {-1, 0, 1}
          /\ borrow[r] = Held(r)

C10_Witness ==
    /\ At("test", "get_logs", "collect")
    /\ Top("test").logger = "fake1"
    /\ borrow["fake1"] = 1
    /\ history = <<RunOp("fake1")>>

====
